---- MODULE Spec2Model ----
(***************************************************************************)
(* Landmark Hunt JSON converter (LH_json_processor.py) and explorer        *)
(* (LH_data_explorer.py).                                                  *)
(*                                                                         *)
(* A decoded document is either text that json.loads rejects               *)
(* ([t |-> "malformed"]) or its parsed JSON value.  JSON values are tagged *)
(* records: null, numbers, strings, arrays, and objects whose keys are the *)
(* record's other fields (a key that is absent is absent from the record). *)
(* Metric numbers (error, kendallTau, r2, rSquared) are fixed-point with   *)
(* Scale units per 1.0; means are exact fractions.                         *)
(***************************************************************************)
EXTENDS Integers, Sequences, FiniteSets, TLC

VARIABLES app, json_files, source_filter, task_filter, df, warnings,
          df_session, all_landmarks, all_trials, convex_hull_df, exception

vars == <<app, json_files, source_filter, task_filter, df, warnings,
          df_session, all_landmarks, all_trials, convex_hull_df, exception>>

-----------------------------------------------------------------------------
(* Bounds of the explored inputs *)

MaxFiles == 2

MaxDays == 2

MaxTrials == 2

MaxEntries == 8

MaxActiveDays == 3

MaxDateEntries == 4

MaxLandmarks == 3

(* fixed-point unit of the metric values: 12 stands for 1.2 *)
Scale == 10

-----------------------------------------------------------------------------
(* JSON / Python values *)

None == [t |-> "null"]

JNum(n) == [t |-> "num", n |-> n]

JStr(s) == [t |-> "str", s |-> s]

JArr(a) == [t |-> "arr", a |-> a]

EmptyDict == [t |-> "obj"]

Malformed == [t |-> "malformed"]

Raise(exc) == [t |-> "raise", exc |-> exc]

NotRendered == [t |-> "none"]

IsDict(v) == v.t = "obj"

IsList(v) == v.t = "arr"

(* Python truthiness: None, 0, "", [] and {} are falsy *)
Truthy(v) ==
  CASE v.t = "null" -> FALSE
    [] v.t = "num" -> v.n # 0
    [] v.t = "str" -> v.s # ""
    [] v.t = "arr" -> Len(v.a) > 0
    [] v.t = "obj" -> DOMAIN v # {"t"}
    [] OTHER -> TRUE

(* a or b *)
PyOr(a, b) == IF Truthy(a) THEN a ELSE b

(* dict.get(field, default) on a dict *)
DictGet(obj, field, default) == IF field \in DOMAIN obj THEN obj[field] ELSE default

(* the elements a for loop visits: a list's items; a dict yields its keys,  *)
(* which are strings.  Iterating a number or None is a TypeError, which the *)
(* callers test with Iterable before they loop.                             *)
Iterable(v) == v.t \in {"arr", "obj", "str"}

Items(v) ==
  CASE v.t = "arr" -> v.a
    [] v.t = "obj" -> LET keys == DOMAIN v \ {"t"}
                          RECURSIVE Enum(_)
                          Enum(S) == IF S = {} THEN <<>>
                                     ELSE LET k == CHOOSE k \in S : TRUE
                                          IN <<JStr(k)>> \o Enum(S \ {k})
                      IN Enum(keys)
    [] OTHER -> <<>>

FlatMap(Op(_), s) ==
  LET f[i \in 0..Len(s)] == IF i = 0 THEN <<>> ELSE f[i-1] \o Op(s[i])
  IN f[Len(s)]

Sum(s) ==
  LET f[i \in 0..Len(s)] == IF i = 0 THEN 0 ELSE f[i-1] + s[i]
  IN f[Len(s)]

Abs(n) == IF n < 0 THEN -n ELSE n

RECURSIVE GCD(_, _)
GCD(a, b) == IF b = 0 THEN a ELSE GCD(b, a % b)

(* an exact quotient num/den (den > 0) in lowest terms *)
Frac(num, den) ==
  LET g == GCD(Abs(num), den)
  IN [t |-> "frac", num |-> num \div g, den |-> den \div g]

(* np.mean of a non-empty list of numbers *)
np_mean(values) == Frac(Sum(values), Len(values))

Max(S) == CHOOSE m \in S : \A n \in S : n <= m

Min(S) == CHOOSE m \in S : \A n \in S : m <= n

(* sorted(set) of integers *)
RECURSIVE Sorted(_)
Sorted(S) == IF S = {} THEN <<>> ELSE <<Min(S)>> \o Sorted(S \ {Min(S)})

Range(s) == {s[i] : i \in DOMAIN s}

-----------------------------------------------------------------------------
(* dates: pd.to_datetime parses a date string into a timestamp, counted    *)
(* here in days since 2023-12-31; strftime("%Y-%m-%d") formats it back     *)

DateStrings == {"2024-01-01", "2024-01-02", "2024-01-03", "2024-01-10"}

to_datetime(s) ==
  CASE s = "2024-01-01" -> 1
    [] s = "2024-01-02" -> 2
    [] s = "2024-01-03" -> 3
    [] s = "2024-01-10" -> 10

strftime(d) ==
  CASE d = 1 -> "2024-01-01"
    [] d = 2 -> "2024-01-02"
    [] d = 3 -> "2024-01-03"
    [] d = 10 -> "2024-01-10"

-----------------------------------------------------------------------------
(* LH_json_processor.py *)

Sources == {"assessment", "manual", "reminder"}

ordered_tasks == <<"pointing", "distance", "kendallTau", "mapping">>

task_types == <<"pointing", "distance", "mapping">>

(* obj.get(field, None): an AttributeError on anything that is not a dict *)
safe_extract(obj, field) ==
  IF IsDict(obj) THEN DictGet(obj, field, None) ELSE Raise("AttributeError")

(* the (lon, lat) pairs with both coordinates present *)
valid_coords(coords) == SelectSeq(coords, LAMBDA c : c[1] # None /\ c[2] # None)

(* int(x) of the quotient num/den (den > 0): truncation toward zero *)
PyInt(num, den) == IF num >= 0 THEN num \div den ELSE -((-num) \div den)

(* utm_zone = int((mean_lon + 180) / 6) + 1 with mean_lon = sum(lon) / n *)
utm_zone(coords) ==
  LET n == Len(coords)
      sum_lon == Sum([i \in 1..n |-> coords[i][1].n])
  IN PyInt(sum_lon + 180 * n, 6 * n) + 1

(* EPSG code: 32600 + zone when mean_lat >= 0, else 32700 + zone *)
utm_crs(coords) ==
  LET n == Len(coords)
      sum_lat == Sum([i \in 1..n |-> coords[i][2].n])
  IN IF sum_lat >= 0 THEN 32600 + utm_zone(coords) ELSE 32700 + utm_zone(coords)

(* hull.area / 1e6 of the points reprojected into crs: a number *)
HullArea(coords, crs) == [t |-> "area", crs |-> crs, points |-> Range(coords)]

calculate_convex_hull_area(landmarks) ==
  IF \E i \in DOMAIN landmarks : ~IsDict(landmarks[i]) THEN Raise("AttributeError")
  ELSE
    LET all == [i \in DOMAIN landmarks |->
                  <<safe_extract(landmarks[i], "longitude"),
                    safe_extract(landmarks[i], "latitude")>>]
        coords == valid_coords(all)
    IN IF Len(coords) >= 3 THEN HullArea(coords, utm_crs(coords)) ELSE None

(* the task list a pool is filled from *)
TaskTypeOf(key) == IF key = "kendallTau" THEN "distance" ELSE key

label(task) ==
  CASE task = "pointing" -> "Pointing_Error"
    [] task = "distance" -> "Distance_Accuracy"
    [] task = "kendallTau" -> "Kendall_Tau"
    [] OTHER -> "Mapping_R2"

(* the accuracy without its clamp *)
unclamped_accuracy(tau) == 50 * Scale + 50 * tau

(* accuracy = max(0, min(100, 50 + 50 * tau)) *)
clamped_accuracy(tau) ==
  LET raw == 50 * Scale + 50 * tau
      capped == IF raw < 100 * Scale THEN raw ELSE 100 * Scale
  IN IF capped > 0 THEN capped ELSE 0

(* r2 = safe_extract(trial, "r2") or safe_extract(trial, "rSquared") *)
mapping_r2(trial) == PyOr(DictGet(trial, "r2", None), DictGet(trial, "rSquared", None))

(* what one trial (a dict) appends to the pool named key *)
trial_values(trial, key, sf) ==
  IF DictGet(trial, "taskSource", None) # JStr(sf) THEN <<>>
  ELSE CASE key = "pointing" ->
              LET error == DictGet(trial, "error", None)
              IN IF error # None THEN <<error.n>> ELSE <<>>
         [] key = "distance" ->
              LET tau == DictGet(trial, "kendallTau", None)
              IN IF tau # None THEN <<clamped_accuracy(tau.n)>> ELSE <<>>
         [] key = "kendallTau" ->
              LET tau == DictGet(trial, "kendallTau", None)
              IN IF tau # None THEN <<tau.n>> ELSE <<>>
         [] OTHER ->
              LET r2 == mapping_r2(trial)
              IN IF r2 # None THEN <<r2.n>> ELSE <<>>

(* the trials the loops reach in one daily entry (a dict), for one task type *)
reached_trials(entry, task_type) ==
  LET results_by_source == DictGet(entry, "resultsBySource", None)
      OfSource(source_entry) ==
        IF ~IsDict(source_entry) THEN <<>>
        ELSE LET trials == DictGet(source_entry, task_type, None)
             IN IF Truthy(trials) THEN Items(trials) ELSE <<>>
  IN IF Truthy(results_by_source) THEN FlatMap(OfSource, Items(results_by_source))
     ELSE <<>>

(* day_data[key] of one daily entry *)
day_data(entry, key, sf) ==
  LET OfTrial(trial) == trial_values(trial, key, sf)
  IN FlatMap(OfTrial, reached_trials(entry, TaskTypeOf(key)))

(* a for loop over a truthy value that is not iterable *)
loop_type_error(entry) ==
  LET results_by_source == DictGet(entry, "resultsBySource", None)
  IN /\ Truthy(results_by_source)
     /\ \/ ~Iterable(results_by_source)
        \/ \E i \in DOMAIN Items(results_by_source), k \in DOMAIN task_types :
             LET source_entry == Items(results_by_source)[i]
             IN /\ IsDict(source_entry)
                /\ Truthy(DictGet(source_entry, task_types[k], None))
                /\ ~Iterable(DictGet(source_entry, task_types[k], None))

current_week(day_idx) == (day_idx - 1) \div 7 + 1

day_column(day_idx, sf, task) == "Day" \o ToString(day_idx) \o "_" \o sf \o "_" \o label(task)

week_column(week, sf, task) == "Week" \o ToString(week) \o "_" \o sf \o "_" \o label(task)

overall_column(sf, task) == "Overall_" \o sf \o "_" \o label(task)

EmptyRow == [c \in {} |-> None]

(* merge over the four pools of the columns Col(task) that have a value *)
TaskColumns(Col(_), Values(_)) ==
  LET f[k \in 0..Len(ordered_tasks)] ==
        IF k = 0 THEN EmptyRow
        ELSE IF Values(ordered_tasks[k]) # <<>>
             THEN (Col(ordered_tasks[k]) :> np_mean(Values(ordered_tasks[k]))) @@ f[k-1]
             ELSE f[k-1]
  IN f[Len(ordered_tasks)]

daily_metrics(daily_results, sf) ==
  LET OfDay(day_idx) ==
        LET Col(task) == day_column(day_idx, sf, task)
            Values(task) == day_data(daily_results[day_idx], task, sf)
        IN TaskColumns(Col, Values)
      f[i \in 0..Len(daily_results)] == IF i = 0 THEN EmptyRow ELSE OfDay(i) @@ f[i-1]
  IN f[Len(daily_results)]

(* weekly_metrics[week_key]: the values of the week's days, pooled *)
weekly_pool(daily_results, week, key, sf) ==
  LET f[i \in 0..Len(daily_results)] ==
        IF i = 0 THEN <<>>
        ELSE IF current_week(i) = week
             THEN f[i-1] \o day_data(daily_results[i], key, sf)
             ELSE f[i-1]
  IN f[Len(daily_results)]

week_avg_metrics(daily_results, sf) ==
  LET weeks == {current_week(i) : i \in DOMAIN daily_results}
      OfWeek(week) ==
        LET Col(task) == week_column(week, sf, task)
            Values(task) == weekly_pool(daily_results, week, task, sf)
        IN TaskColumns(Col, Values)
      RECURSIVE Merge(_)
      Merge(W) == IF W = {} THEN EmptyRow
                  ELSE LET w == Max(W) IN OfWeek(w) @@ Merge(W \ {w})
  IN Merge(weeks)

(* trial_data[key]: the values of the whole document *)
trial_data(daily_results, key, sf) ==
  LET OfEntry(entry) == day_data(entry, key, sf)
  IN FlatMap(OfEntry, daily_results)

overall_metrics(daily_results, sf) ==
  LET f[k \in 0..Len(ordered_tasks)] ==
        IF k = 0 THEN EmptyRow
        ELSE LET values == trial_data(daily_results, ordered_tasks[k], sf)
             IN (overall_column(sf, ordered_tasks[k]) :>
                   (IF values # <<>> THEN np_mean(values) ELSE None)) @@ f[k-1]
  IN f[Len(ordered_tasks)]

(* the parsed, de-duplicated dates, ascending *)
unique_dates(dates) == Sorted({to_datetime(dates[i].s) : i \in DOMAIN dates})

(* gaps between consecutive days *)
gaps(days) == [i \in 1..(Len(days) - 1) |-> days[i+1] - days[i]]

longest_gap_days(days) ==
  IF Len(days) > 1 THEN JNum(Max(Range(gaps(days)))) ELSE None

(* streak = 1; longest = 1; extended by each day one after its predecessor *)
longest_streak_days(days) ==
  LET f[i \in 1..(IF Len(days) > 1 THEN Len(days) ELSE 1)] ==
        IF i = 1 THEN [streak |-> 1, longest |-> 1]
        ELSE IF days[i] - days[i-1] = 1
             THEN [streak |-> f[i-1].streak + 1,
                   longest |-> IF f[i-1].streak + 1 > f[i-1].longest
                               THEN f[i-1].streak + 1 ELSE f[i-1].longest]
             ELSE [streak |-> 1, longest |-> f[i-1].longest]
  IN f[IF Len(days) > 1 THEN Len(days) ELSE 1].longest

process_file(content, sf) ==
  IF content = Malformed THEN Raise("JSONDecodeError")
  ELSE LET data == content IN
  IF ~IsDict(data) THEN Raise("AttributeError")
  ELSE LET p_info == DictGet(data, "participantInfo", EmptyDict) IN
  IF ~IsDict(p_info) THEN Raise("AttributeError")
  ELSE LET landmarks == DictGet(data, "landmarks", JArr(<<>>)) IN
  IF ~IsList(landmarks) THEN Raise("TypeError")
  ELSE LET convex_hull_area == calculate_convex_hull_area(landmarks.a) IN
  IF convex_hull_area.t = "raise" THEN convex_hull_area
  ELSE LET daily_results == DictGet(data, "dailyResults", JArr(<<>>)) IN
  IF ~IsList(daily_results) THEN Raise("TypeError")
  ELSE IF \E i \in DOMAIN daily_results.a : ~IsDict(daily_results.a[i])
       THEN Raise("AttributeError")
  ELSE IF \E i \in DOMAIN daily_results.a : loop_type_error(daily_results.a[i])
       THEN Raise("TypeError")
  ELSE IF \E i \in DOMAIN daily_results.a, k \in DOMAIN task_types :
            \E j \in DOMAIN reached_trials(daily_results.a[i], task_types[k]) :
               ~IsDict(reached_trials(daily_results.a[i], task_types[k])[j])
       THEN Raise("AttributeError")
  ELSE
    LET total_landmarks == Len(landmarks.a)
        dates == SelectSeq([i \in DOMAIN daily_results.a |->
                              safe_extract(daily_results.a[i], "date")],
                           LAMBDA d : d # None)
        days == unique_dates(dates)
        total_days_used == Len(days)
        result ==
          [userID |-> safe_extract(p_info, "userID"),
           gender |-> safe_extract(p_info, "gender"),
           age |-> safe_extract(p_info, "age"),
           sessionID |-> safe_extract(data, "sessionID"),
           total_landmarks |-> JNum(total_landmarks),
           deleted_landmarks |-> DictGet(data, "deletedLandmarks", JNum(0)),
           convex_hull_area |-> convex_hull_area,
           total_days_used |-> JNum(total_days_used),
           first_use_date |-> IF days # <<>> THEN JStr(strftime(days[1])) ELSE None,
           last_use_date |-> IF days # <<>> THEN JStr(strftime(days[Len(days)])) ELSE None,
           total_duration_days |-> IF days # <<>> THEN JNum(days[Len(days)] - days[1]) ELSE None,
           engagement_ratio |-> IF total_landmarks > 0
                                THEN Frac(total_days_used, total_landmarks) ELSE None,
           longest_gap_days |-> longest_gap_days(days),
           longest_streak_days |-> JNum(longest_streak_days(days))]
    IN [t |-> "row",
        row |-> week_avg_metrics(daily_results.a, sf) @@ daily_metrics(daily_results.a, sf)
                  @@ overall_metrics(daily_results.a, sf) @@ result]

(* pd.DataFrame(): no rows, no columns *)
EmptyDataFrame == [t |-> "DataFrame", columns |-> {}, rows |-> <<>>]

(* pd.concat(frames, ignore_index=True) of the frames' rows: the rows in   *)
(* order, over the union of the columns, absent cells filled with NaN      *)
pd_concat(rows) ==
  CHOOSE frame \in
    {[t |-> "DataFrame", columns |-> columns,
      rows |-> [i \in DOMAIN rs |->
                  [c \in columns |-> IF c \in DOMAIN rs[i] THEN rs[i][c] ELSE None]]] :
       rs \in {rows}, columns \in {UNION {DOMAIN rows[i] : i \in DOMAIN rows}}} : TRUE

(* the loop of process_uploaded_files: a JSONDecodeError skips the file     *)
(* with a warning, any other exception leaves the loop and the function     *)
process_uploaded_files(files, sf) ==
  LET Outcome(content) == <<process_file(content, sf)>>
      Caught(r) == r.t = "raise" /\ r.exc = "JSONDecodeError"
      Uncaught(r) == r.t = "raise" /\ r.exc # "JSONDecodeError"
      Row(r) == r.row
      Finish(outcomes) ==
        IF \E i \in DOMAIN outcomes : Uncaught(outcomes[i])
        THEN LET first == Min({i \in DOMAIN outcomes : Uncaught(outcomes[i])})
             IN [df |-> NotRendered,
                 warnings |-> Cardinality({i \in 1..(first - 1) : Caught(outcomes[i])}),
                 exc |-> outcomes[first]]
        ELSE LET results == SelectSeq(outcomes, LAMBDA r : r.t = "row")
             IN [df |-> IF results # <<>>
                        THEN pd_concat([i \in DOMAIN results |-> Row(results[i])])
                        ELSE EmptyDataFrame,
                 warnings |-> Cardinality({i \in DOMAIN outcomes : Caught(outcomes[i])}),
                 exc |-> None]
  IN CHOOSE out \in {Finish(outcomes) : outcomes \in {FlatMap(Outcome, files)}} : TRUE

-----------------------------------------------------------------------------
(* LH_data_explorer.py *)

(* obj.get(field, None) if isinstance(obj, dict) else None *)
explorer_safe_extract(obj, field) ==
  IF IsDict(obj) THEN DictGet(obj, field, None) ELSE None

(* pd.DataFrame(records): the records' keys are the columns; no records, no *)
(* columns                                                                  *)
DataFrame(records) ==
  [t |-> "DataFrame",
   columns |-> UNION {DOMAIN records[i] : i \in DOMAIN records},
   rows |-> records]

(* the first exception among the outcomes, in order *)
first_raise(outcomes) ==
  outcomes[Min({i \in DOMAIN outcomes : outcomes[i].t = "raise"})]

(* pd.concat(frames, ignore_index=True): a ValueError on an empty list;   *)
(* the list comprehension that builds the frames ends at the first document *)
(* that raises                                                              *)
concat_frames(frames) ==
  IF \E i \in DOMAIN frames : frames[i].t = "raise" THEN first_raise(frames)
  ELSE IF frames = <<>> THEN Raise("ValueError")
  ELSE LET Rows(frame) == frame.rows
       IN pd_concat(FlatMap(Rows, frames))

(* one row of the Participant & Session Overview *)
session_row(content) ==
  IF content = Malformed THEN Raise("JSONDecodeError")
  ELSE LET data == content
           p_info == explorer_safe_extract(data, "participantInfo")
       IN IF ~IsDict(data) THEN Raise("AttributeError")
          ELSE LET landmarks == DictGet(data, "landmarks", JArr(<<>>))
               IN IF ~Iterable(landmarks) THEN Raise("TypeError")
                  ELSE [t |-> "row",
                        row |-> [userID |-> explorer_safe_extract(p_info, "userID"),
                                 gender |-> explorer_safe_extract(p_info, "gender"),
                                 age |-> explorer_safe_extract(p_info, "age"),
                                 sessionID |-> explorer_safe_extract(data, "sessionID"),
                                 total_landmarks |-> JNum(Len(Items(landmarks))),
                                 deleted_landmarks |-> DictGet(data, "deletedLandmarks", JNum(0))]]

extract_landmark_data(content) ==
  IF content = Malformed THEN Raise("JSONDecodeError")
  ELSE LET data == content
           userID == explorer_safe_extract(explorer_safe_extract(data, "participantInfo"), "userID")
       IN IF ~IsDict(data) THEN Raise("AttributeError")
          ELSE LET landmarks == DictGet(data, "landmarks", JArr(<<>>))
                   Record(lm) == <<[userID |-> userID,
                                    latitude |-> explorer_safe_extract(lm, "latitude"),
                                    longitude |-> explorer_safe_extract(lm, "longitude"),
                                    timestamp |-> explorer_safe_extract(lm, "timestamp")]>>
               IN IF ~Iterable(landmarks) THEN Raise("TypeError")
                  ELSE DataFrame(FlatMap(Record, Items(landmarks)))

(* landmarks_df['userID'].unique(): the distinct values, first seen first *)
unique_users(rows) ==
  LET f[i \in 0..Len(rows)] ==
        IF i = 0 THEN <<>>
        ELSE IF rows[i].userID \in Range(f[i-1]) THEN f[i-1]
             ELSE Append(f[i-1], rows[i].userID)
  IN f[Len(rows)]

(* landmarks_df[landmarks_df['userID'] == user]: a missing userID compares *)
(* unequal to everything, itself included                                  *)
user_rows(rows, user) == SelectSeq(rows, LAMBDA r : r.userID # None /\ r.userID = user)

explorer_calculate_convex_hull_area(landmarks_df) ==
  IF "userID" \notin landmarks_df.columns THEN Raise("KeyError")
  ELSE
    LET users == unique_users(landmarks_df.rows)
        Result(user) ==
          LET user_data == user_rows(landmarks_df.rows, user)
              all == [i \in DOMAIN user_data |->
                        <<user_data[i].longitude, user_data[i].latitude>>]
              coords == valid_coords(all)
          IN <<[userID |-> user,
                convex_hull_area_km2 |->
                  IF Len(coords) >= 3 THEN HullArea(coords, utm_crs(coords)) ELSE None,
                num_landmarks |-> JNum(Len(coords))]>>
    IN DataFrame(FlatMap(Result, users))

(* source_f / task_f: the selectbox value, None for "All" *)
filter_value(choice) == IF choice = "All" THEN None ELSE JStr(choice)

(* the comparison turned round: the trials of the selected source skipped *)
source_skipped_inverted(trial, source_f) ==
  Truthy(source_f) /\ explorer_safe_extract(trial, "taskSource") = source_f

(* if source_filter and safe_extract(trial, "taskSource") != source_filter: continue *)
source_skipped(trial, source_f) ==
  Truthy(source_f) /\ explorer_safe_extract(trial, "taskSource") # source_f

(* if task_filter and task_type != task_filter: continue *)
task_skipped(task_type, task_f) ==
  Truthy(task_f) /\ JStr(task_type) # task_f

(* accuracy = 50 + 50 * tau if tau is not None else None *)
distance_accuracy(tau) ==
  IF tau # None THEN JNum(50 * Scale + 50 * tau.n) ELSE None

trial_record(userID, sessionID, task_type, trial) ==
  LET tau == explorer_safe_extract(trial, "kendallTau")
  IN [userID |-> userID,
      sessionID |-> sessionID,
      taskSource |-> explorer_safe_extract(trial, "taskSource"),
      taskType |-> JStr(task_type),
      error |-> explorer_safe_extract(trial, "error"),
      kendallTau |-> tau,
      distance_accuracy |-> distance_accuracy(tau),
      r2 |-> PyOr(explorer_safe_extract(trial, "r2"),
                  explorer_safe_extract(trial, "rSquared")),
      timestamp |-> explorer_safe_extract(trial, "timestamp")]

(* a for loop of extract_trial_data over a truthy value that is not iterable *)
explorer_loop_type_error(entry) ==
  LET results_by_source == explorer_safe_extract(entry, "resultsBySource")
  IN /\ Truthy(results_by_source)
     /\ \/ ~Iterable(results_by_source)
        \/ \E i \in DOMAIN Items(results_by_source), k \in DOMAIN task_types :
             LET source_entry == Items(results_by_source)[i]
             IN /\ IsDict(source_entry)
                /\ Truthy(DictGet(source_entry, task_types[k], None))
                /\ ~Iterable(DictGet(source_entry, task_types[k], None))

extract_trial_data(content, source_f, task_f) ==
  IF content = Malformed THEN Raise("JSONDecodeError")
  ELSE LET data == content
           userID == explorer_safe_extract(explorer_safe_extract(data, "participantInfo"), "userID")
           sessionID == explorer_safe_extract(data, "sessionID")
       IN
  IF ~IsDict(data) THEN Raise("AttributeError")
  ELSE LET daily_results == DictGet(data, "dailyResults", JArr(<<>>)) IN
  IF ~Iterable(daily_results) THEN Raise("TypeError")
  ELSE IF \E i \in DOMAIN Items(daily_results) :
            explorer_loop_type_error(Items(daily_results)[i])
       THEN Raise("TypeError")
  ELSE
    LET OfTrials(task_type, trials) ==
          LET OfTrial(trial) ==
                IF source_skipped(trial, source_f) THEN <<>>
                ELSE <<trial_record(userID, sessionID, task_type, trial)>>
          IN FlatMap(OfTrial, Items(trials))
        OfSource(source_entry) ==
          IF ~IsDict(source_entry) THEN <<>>
          ELSE LET OfTask(task_type) ==
                     IF task_skipped(task_type, task_f) THEN <<>>
                     ELSE LET trials == explorer_safe_extract(source_entry, task_type)
                          IN IF Truthy(trials) THEN OfTrials(task_type, trials) ELSE <<>>
               IN FlatMap(OfTask, task_types)
        OfEntry(entry) ==
          LET results_by_source == explorer_safe_extract(entry, "resultsBySource")
          IN IF Truthy(results_by_source)
             THEN FlatMap(OfSource, Items(results_by_source))
             ELSE <<>>
    IN DataFrame(FlatMap(OfEntry, Items(daily_results)))

(* Section 1: df_session *)
session_overview(files) ==
  LET Outcome(content) == <<session_row(content)>>
      Finish(session_data) ==
        IF \E i \in DOMAIN session_data : session_data[i].t = "raise"
        THEN first_raise(session_data)
        ELSE DataFrame([i \in DOMAIN session_data |-> session_data[i].row])
  IN CHOOSE out \in {Finish(session_data) : session_data \in {FlatMap(Outcome, files)}} : TRUE

(* Sections 2 and 4: pd.concat([extract_landmark_data(c) for c in json_files]) *)
landmark_coordinates(files) ==
  LET Outcome(content) == <<extract_landmark_data(content)>>
  IN CHOOSE out \in {concat_frames(frames) : frames \in {FlatMap(Outcome, files)}} : TRUE

(* Section 3: pd.concat([extract_trial_data(c, source_f, task_f) for c in json_files]) *)
task_level_trials(files, source_choice, task_choice) ==
  LET Outcome(content) ==
        <<extract_trial_data(content, filter_value(source_choice), filter_value(task_choice))>>
  IN CHOOSE out \in {concat_frames(frames) : frames \in {FlatMap(Outcome, files)}} : TRUE

(* what a section leaves on the page: its table, or nothing once an       *)
(* exception has ended the run                                            *)
Rendered(prior, s) ==
  IF s.t # "raise" /\ \A i \in DOMAIN prior : prior[i].t # "raise" THEN s ELSE NotRendered

-----------------------------------------------------------------------------
(* The two applications as state machines over the uploaded documents *)

SourceChoices == {"All"} \cup Sources

TaskChoices == {"All", "pointing", "distance", "mapping"}

(* the "Process Data" button of the converter, with the selected source *)
ProcessData ==
  /\ app = "converter"
  /\ \E choice \in Sources :
       \E out \in {process_uploaded_files(json_files, choice)} :
          /\ source_filter' = choice
          /\ df' = out.df
          /\ warnings' = out.warnings
          /\ exception' = out.exc
  /\ UNCHANGED <<app, json_files, task_filter, df_session, all_landmarks,
                 all_trials, convex_hull_df>>

(* a run of the explorer script with the selected source and task filters: *)
(* the four sections in order, the first uncaught exception ending the run *)
ExplorerRun ==
  /\ app = "explorer"
  /\ \E source_choice \in SourceChoices, task_choice \in TaskChoices :
       \E s1 \in {session_overview(json_files)}, s2 \in {landmark_coordinates(json_files)} :
         \E s3 \in {task_level_trials(json_files, source_choice, task_choice)},
            s4 \in {IF s2.t = "raise" THEN s2 ELSE explorer_calculate_convex_hull_area(s2)} :
          /\ source_filter' = source_choice
          /\ task_filter' = task_choice
          /\ df_session' = Rendered(<<>>, s1)
          /\ all_landmarks' = Rendered(<<s1>>, s2)
          /\ all_trials' = Rendered(<<s1, s2>>, s3)
          /\ convex_hull_df' = Rendered(<<s1, s2, s3>>, s4)
          /\ exception' = IF s1.t = "raise" THEN s1
                          ELSE IF s2.t = "raise" THEN s2
                          ELSE IF s3.t = "raise" THEN s3
                          ELSE IF s4.t = "raise" THEN s4
                          ELSE None
  /\ UNCHANGED <<app, json_files, df, warnings>>

Next == ProcessData \/ ExplorerRun

(* the state once the documents are read and before anything is computed *)
Start(files) ==
  /\ app \in {"converter", "explorer"}
  /\ json_files \in files
  /\ source_filter = "unset"
  /\ task_filter = "unset"
  /\ df = NotRendered
  /\ warnings = 0
  /\ df_session = NotRendered
  /\ all_landmarks = NotRendered
  /\ all_trials = NotRendered
  /\ convex_hull_df = NotRendered
  /\ exception = None

(* sequences over S of length lo..hi *)
SeqsOf(S, lo, hi) == UNION {[1..n -> S] : n \in lo..hi}

(* an object from a base object and optional members: each member is <<key, *)
(* value>>, left out when the value is Absent                               *)
Absent == [t |-> "absent"]

With(obj, key, value) == IF value = Absent THEN obj ELSE (key :> value) @@ obj

-----------------------------------------------------------------------------
(* Explored documents *)

Participant(user) == [t |-> "obj", userID |-> JStr(user), gender |-> JStr("f"), age |-> JNum(30)]

Landmark(lon, lat) == With(With(EmptyDict, "longitude", lon), "latitude", lat)

Trial(source, field, value) == With(With(EmptyDict, "taskSource", source), field, value)

(* a source entry with the given task lists *)
SourceEntry(source, pointing, distance, mapping) ==
  With(With(With(With(EmptyDict, "taskSource", source),
                 "pointing", pointing), "distance", distance), "mapping", mapping)

Entry(date, results_by_source) ==
  With(With(EmptyDict, "date", date), "resultsBySource", results_by_source)

Document(participantInfo, landmarks, dailyResults) ==
  With(With(With([t |-> "obj", sessionID |-> JStr("s1")],
                 "participantInfo", participantInfo),
            "landmarks", landmarks), "dailyResults", dailyResults)

ThreeLandmarks == JArr(<<Landmark(JNum(10), JNum(50)), Landmark(JNum(11), JNum(50)),
                         Landmark(JNum(10), JNum(51))>>)

(* the end-to-end example: one pointing trial, error 2.5, source assessment *)
PointingDay ==
  Entry(JStr("2024-01-01"),
        JArr(<<SourceEntry(JStr("assessment"),
                           JArr(<<Trial(JStr("assessment"), "error", JNum(25))>>),
                           Absent, Absent)>>))

DistanceDay ==
  Entry(JStr("2024-01-02"),
        JArr(<<SourceEntry(JStr("manual"), Absent,
                           JArr(<<Trial(JStr("manual"), "kendallTau", JNum(12))>>),
                           Absent)>>))

(* --- batches of whole documents: malformed text, complete documents,     *)
(* documents with members missing or of the wrong shape                    *)
BatchDocuments ==
  { Malformed,
    EmptyDict,
    Document(Participant("u1"), ThreeLandmarks, JArr(<<PointingDay>>)),
    Document(Participant("u2"), ThreeLandmarks, JArr(<<PointingDay, DistanceDay>>)),
    Document(Participant("u1"), JArr(<<>>), JArr(<<DistanceDay>>)),
    Document(Participant("u2"), Absent, Absent),
    Document(None, ThreeLandmarks, JArr(<<PointingDay>>)),
    Document(Participant("u1"), JArr(<<None>>), JArr(<<PointingDay>>)),
    Document(Participant("u1"), ThreeLandmarks, JArr(<<None>>)) }

Batches == SeqsOf(BatchDocuments, 0, MaxFiles)

Init == Start(Batches)

Spec == Init /\ [][Next]_vars

(* --- one document whose members are each absent, null, not an object, or *)
(* an object                                                               *)
Shapes(object) == {None, JNum(7), object}

FieldDocuments ==
  { Document(participantInfo, JArr(<<landmark>>),
             JArr(<<With(EmptyDict, "resultsBySource",
                         JArr(<<source_entry>>))>>)) :
      participantInfo \in Shapes(Participant("u1")) \cup {Absent},
      landmark \in Shapes(Landmark(JNum(10), JNum(50))),
      source_entry \in
        {None, JNum(7)} \cup
        {SourceEntry(JStr("assessment"), JArr(<<trial>>), Absent, Absent) :
           trial \in Shapes(Trial(JStr("assessment"), "error", JNum(25)))} }
  \cup
  { Document(Participant("u1"), JArr(<<landmark>>), JArr(<<entry>>)) :
      landmark \in Shapes(Landmark(JNum(10), JNum(50))),
      entry \in {None, JNum(7), EmptyDict, PointingDay} }

InitFields == Start(SeqsOf(FieldDocuments, 1, 1))

SpecFields == InitFields /\ [][Next]_vars

(* --- one document of trials: days of one source entry with at most one   *)
(* trial per task, and single days with up to MaxTrials trials of one task *)
PointingTrials ==
  {Trial(JStr("assessment"), "error", error) : error \in {Absent, JNum(0), JNum(25)}}
  \cup {Trial(JStr("manual"), "error", JNum(25))}

DistanceTrials ==
  {Trial(JStr("assessment"), "kendallTau", tau) : tau \in {Absent, JNum(-12), JNum(4), JNum(12)}}
  \cup {Trial(JStr("manual"), "kendallTau", JNum(4))}

MappingTrials ==
  {With(Trial(JStr("assessment"), "r2", r2), "rSquared", rSquared) :
     r2 \in {Absent, None, JNum(0), JNum(5)}, rSquared \in {Absent, JNum(7)}}
  \cup {Trial(JStr("manual"), "r2", JNum(5))}

OneTrialDays ==
  {Entry(Absent, JArr(<<SourceEntry(JStr("assessment"), pointing, distance, mapping)>>)) :
     pointing \in {Absent, JArr(<<Trial(JStr("assessment"), "error", JNum(25))>>)},
     distance \in {Absent, JArr(<<Trial(JStr("manual"), "kendallTau", JNum(12))>>)},
     mapping \in {Absent, JArr(<<Trial(JStr("assessment"), "r2", JNum(5))>>)}}

TrialListDays ==
  {Entry(Absent, JArr(<<SourceEntry(JStr("assessment"), JArr(trials), Absent, Absent)>>)) :
     trials \in SeqsOf(PointingTrials, 1, MaxTrials)}
  \cup
  {Entry(Absent, JArr(<<SourceEntry(JStr("assessment"), Absent, JArr(trials), Absent)>>)) :
     trials \in SeqsOf(DistanceTrials, 1, MaxTrials)}
  \cup
  {Entry(Absent, JArr(<<SourceEntry(JStr("assessment"), Absent, Absent, JArr(trials))>>)) :
     trials \in SeqsOf(MappingTrials, 1, MaxTrials)}

TrialDocuments ==
  {Document(Participant("u1"), Absent, JArr(days)) : days \in SeqsOf(OneTrialDays, 1, MaxDays)}
  \cup {Document(Participant("u1"), Absent, JArr(<<day>>)) : day \in TrialListDays}

InitTrials == Start(SeqsOf(TrialDocuments, 1, 1))

SpecTrials == InitTrials /\ [][Next]_vars

(* --- one document of up to MaxEntries daily entries, of which at most   *)
(* MaxActiveDays hold trials                                               *)
WeekDays ==
  { Entry(Absent, Absent),
    Entry(Absent, JArr(<<SourceEntry(JStr("assessment"),
                                     JArr(<<Trial(JStr("assessment"), "error", JNum(10))>>),
                                     Absent, Absent)>>)),
    Entry(Absent, JArr(<<SourceEntry(JStr("assessment"),
                                     JArr(<<Trial(JStr("assessment"), "error", JNum(20)),
                                            Trial(JStr("assessment"), "error", JNum(60))>>),
                                     Absent,
                                     JArr(<<Trial(JStr("assessment"), "r2", JNum(0))>>))>>)) }

ActiveDays(days) == {i \in DOMAIN days : days[i] # Entry(Absent, Absent)}

WeekDocuments ==
  {Document(Participant("u1"), Absent, JArr(days)) :
     days \in {d \in SeqsOf(WeekDays, 0, MaxEntries) : Cardinality(ActiveDays(d)) <= MaxActiveDays}}

InitWeeks == Start(SeqsOf(WeekDocuments, 1, 1))

SpecWeeks == InitWeeks /\ [][Next]_vars

(* --- one document of up to MaxDateEntries dated daily entries *)
DatedDays == {Entry(date, Absent) : date \in {Absent, None} \cup {JStr(d) : d \in DateStrings}}

DateDocuments ==
  {Document(Participant("u1"), ThreeLandmarks, JArr(days)) :
     days \in SeqsOf(DatedDays, 0, MaxDateEntries)}

InitDates == Start(SeqsOf(DateDocuments, 1, 1))

SpecDates == InitDates /\ [][Next]_vars

(* --- one document of up to MaxLandmarks landmarks *)
Longitudes == {None, JNum(-180), JNum(177), JNum(180)}

Latitudes == {None, JNum(-1), JNum(1)}

Landmarks == {Landmark(lon, lat) : lon \in Longitudes, lat \in Latitudes} \cup {EmptyDict}

LandmarkDocuments ==
  {Document(Participant("u1"), JArr(landmarks), Absent) :
     landmarks \in SeqsOf(Landmarks, 0, MaxLandmarks)}

InitHull == Start(SeqsOf(LandmarkDocuments, 1, 1))

SpecHull == InitHull /\ [][Next]_vars

-----------------------------------------------------------------------------
(* Reference reading of the documents, used to state the properties: the   *)
(* documented schema read null-safely, independent of the code's loops     *)

ConverterDone == app = "converter" /\ source_filter \in Sources

ExplorerDone == app = "explorer" /\ source_filter \in SourceChoices

ConverterTable == ConverterDone /\ df.t = "DataFrame"

WellFormed(files) == SelectSeq(files, LAMBDA content : content # Malformed)

Field(obj, key) == IF obj.t = "obj" /\ key \in DOMAIN obj THEN obj[key] ELSE None

ListOf(v) == IF v.t = "arr" THEN v.a ELSE <<>>

DocEntries(doc) == ListOf(Field(doc, "dailyResults"))

DocLandmarks(doc) == ListOf(Field(doc, "landmarks"))

(* the trials of the daily entries, in document order, each with the task  *)
(* list it stands in                                                       *)
TrialsOf(entries) ==
  FlatMap(LAMBDA entry :
    FlatMap(LAMBDA source_entry :
      FlatMap(LAMBDA task_type :
        FlatMap(LAMBDA trial : <<[taskType |-> task_type, trial |-> trial]>>,
                ListOf(Field(source_entry, task_type))),
        task_types),
      ListOf(Field(entry, "resultsBySource"))),
    entries)

(* min(100, max(0, 50 + 50 t)) *)
ClampedAccuracy(t) ==
  LET raw == 50 * Scale + 50 * t
      floor == IF raw > 0 THEN raw ELSE 0
  IN IF floor < 100 * Scale THEN floor ELSE 100 * Scale

(* the defining metric of a trial for a tracked quantity, None when missing *)
Metric(key, trial) ==
  CASE key = "pointing" -> Field(trial, "error")
    [] key = "kendallTau" -> Field(trial, "kendallTau")
    [] key = "distance" ->
         IF Field(trial, "kendallTau") # None
         THEN JNum(ClampedAccuracy(Field(trial, "kendallTau").n)) ELSE None
    [] OTHER -> IF Field(trial, "r2") # None THEN Field(trial, "r2")
                ELSE Field(trial, "rSquared")

(* the present values of the quantity over the entries' trials of source sf *)
PresentValues(entries, key, sf) ==
  FlatMap(LAMBDA x :
            IF /\ x.taskType = TaskTypeOf(key)
               /\ Field(x.trial, "taskSource") = JStr(sf)
               /\ Metric(key, x.trial) # None
            THEN <<Metric(key, x.trial).n>> ELSE <<>>,
          TrialsOf(entries))

(* the entries at the 1-based positions k with (k-1)//7 + 1 = n *)
WeekEntries(entries, n) ==
  FlatMap(LAMBDA k : IF (k - 1) \div 7 + 1 = n THEN <<entries[k]>> ELSE <<>>,
          [k \in DOMAIN entries |-> k])

(* v is the arithmetic mean of values, null when there are none *)
IsMean(v, values) ==
  IF values = <<>> THEN v = None
  ELSE v.t = "frac" /\ v.num * Len(values) = Sum(values) * v.den

(* the cell of a summary row, null when the column is absent *)
Cell(row, column) == IF column \in DOMAIN row THEN row[column] ELSE None

(* the document a summary row was made from *)
RowDocument(i) == WellFormed(json_files)[i]

-----------------------------------------------------------------------------
(* C1: process_uploaded_files skips each malformed document and processes   *)
(* every other one: it ends without an exception and returns one summary    *)
(* row per well-formed document, in input order.                            *)
C1_OneRowPerWellFormedDocument ==
  ConverterDone =>
    /\ exception = None
    /\ df.t = "DataFrame"
    /\ Len(df.rows) = Len(WellFormed(json_files))
    /\ \A i \in DOMAIN df.rows :
         Cell(df.rows[i], "userID") = Field(Field(RowDocument(i), "participantInfo"), "userID")
    /\ warnings = Len(json_files) - Len(WellFormed(json_files))

(* C2: on a well-formed document whose participantInfo, daily entry, source *)
(* entry, trial or landmark is absent, null or not an object, process_file  *)
(* and extract_trial_data raise nothing and still produce their result.     *)
C2_NoErrorOnWrongShapes ==
  (\A i \in DOMAIN json_files : json_files[i] # Malformed) =>
    /\ ConverterDone =>
         exception = None /\ df.t = "DataFrame" /\ Len(df.rows) = Len(json_files)
    /\ ExplorerDone => exception = None /\ all_trials.t = "DataFrame"

Selected(x) ==
  /\ source_filter = "All" \/ Field(x.trial, "taskSource") = JStr(source_filter)
  /\ task_filter = "All" \/ x.taskType = task_filter

ExpectedTrials ==
  FlatMap(LAMBDA doc : SelectSeq(TrialsOf(DocEntries(doc)), Selected), json_files)

(* C3: extract_trial_data returns one row per trial whose taskSource equals *)
(* the source filter (when given) and whose task type equals the task       *)
(* filter (when given), in document order, and an empty table without error *)
(* when nothing matches.                                                    *)
C3_FilteredTrialsInOrder ==
  (ExplorerDone /\ df_session.t = "DataFrame" /\ all_landmarks.t = "DataFrame") =>
    /\ all_trials.t = "DataFrame"
    /\ Len(all_trials.rows) = Len(ExpectedTrials)
    /\ \A i \in DOMAIN all_trials.rows :
         LET row == all_trials.rows[i]
             x == ExpectedTrials[i]
         IN /\ row.taskType = JStr(x.taskType)
            /\ row.taskSource = Field(x.trial, "taskSource")
            /\ row.error = Field(x.trial, "error")
            /\ row.kendallTau = Field(x.trial, "kendallTau")

(* both filters set, some trials kept and some left out *)
C3_Witness ==
  /\ ExplorerDone /\ all_trials.t = "DataFrame"
  /\ source_filter = "manual" /\ task_filter = "distance"
  /\ Len(all_trials.rows) >= 1
  /\ \E i \in DOMAIN json_files :
       Len(TrialsOf(DocEntries(json_files[i]))) > Len(all_trials.rows)

InPercentRange(v) ==
  v = None \/ (v.t = "frac" /\ 0 <= v.num /\ v.num <= 100 * Scale * v.den)

(* C4: a distance trial's row has distance_accuracy = 50 + 50 t, unclamped; *)
(* what the trial adds to the summarizer's pools is min(100, max(0, 50 +    *)
(* 50 t)), so each Distance_Accuracy column is the mean of clamped values   *)
(* and lies in [0, 100].                                                    *)
C4_DistanceAccuracy ==
  /\ (ExplorerDone /\ all_trials.t = "DataFrame") =>
       \A i \in DOMAIN all_trials.rows :
         LET row == all_trials.rows[i]
         IN (row.taskType = JStr("distance") /\ row.kendallTau # None) =>
              row.distance_accuracy = JNum(50 * Scale + 50 * row.kendallTau.n)
  /\ ConverterTable =>
       \A i \in DOMAIN df.rows :
         LET row == df.rows[i]
             entries == DocEntries(RowDocument(i))
         IN /\ \A column \in DOMAIN row :
                 (\/ column = overall_column(source_filter, "distance")
                  \/ \E n \in DOMAIN entries :
                       \/ column = day_column(n, source_filter, "distance")
                       \/ column = week_column(n, source_filter, "distance"))
                 => InPercentRange(row[column])
            /\ IsMean(Cell(row, overall_column(source_filter, "distance")),
                      PresentValues(entries, "distance", source_filter))
            /\ \A n \in DOMAIN entries :
                 /\ IsMean(Cell(row, day_column(n, source_filter, "distance")),
                           PresentValues(<<entries[n]>>, "distance", source_filter))
                 /\ IsMean(Cell(row, week_column(n, source_filter, "distance")),
                           PresentValues(WeekEntries(entries, n), "distance", source_filter))

(* a trial with kendallTau 1.2 of the selected source: pooled as 100 *)
C4_Witness ==
  /\ ConverterTable /\ Len(df.rows) = 1
  /\ \E x \in Range(TrialsOf(DocEntries(RowDocument(1)))) :
       /\ x.taskType = "distance"
       /\ Field(x.trial, "taskSource") = JStr(source_filter)
       /\ Field(x.trial, "kendallTau") = JNum(12)
  /\ Cell(df.rows[1], overall_column(source_filter, "distance")) = Frac(100 * Scale, 1)

(* C5: Overall_{source}_{Label} is the mean of the metric over the trials   *)
(* of the selected source whose defining metric is present (error; kendall  *)
(* Tau; r2, or rSquared when r2 is absent), null when there is none; a      *)
(* present metric, the value 0 included, is always counted.                 *)
C5_OverallMeans ==
  ConverterTable =>
    \A i \in DOMAIN df.rows, k \in DOMAIN ordered_tasks :
      IsMean(Cell(df.rows[i], overall_column(source_filter, ordered_tasks[k])),
             PresentValues(DocEntries(RowDocument(i)), ordered_tasks[k], source_filter))

(* C6: the daily entry at position k belongs to week (k-1)//7 + 1, and the  *)
(* column Week{n}_{source}_{Label} exists exactly when an entry of week n   *)
(* has a present matching value, holding the mean of the week's pooled      *)
(* values.                                                                  *)
C6_WeekColumns ==
  ConverterTable =>
    \A i \in DOMAIN df.rows :
      LET entries == DocEntries(RowDocument(i))
      IN \A n \in DOMAIN entries, k \in DOMAIN ordered_tasks :
           LET column == week_column(n, source_filter, ordered_tasks[k])
               pooled == PresentValues(WeekEntries(entries, n), ordered_tasks[k], source_filter)
           IN /\ (column \in DOMAIN df.rows[i] /\ df.rows[i][column] # None) <=> pooled # <<>>
              /\ IsMean(Cell(df.rows[i], column), pooled)

UniqueDays(doc) ==
  {to_datetime(Field(entry, "date").s) :
     entry \in {e \in Range(DocEntries(doc)) : Field(e, "date") # None}}

(* the days a..b are all days of use *)
IsRun(days, a, b) == \A d \in a..b : d \in days

LongestRun(days) ==
  IF days = {} THEN 0
  ELSE Max({b - a + 1 : <<a, b>> \in {p \in days \X days : p[1] <= p[2] /\ IsRun(days, p[1], p[2])}})

LargestGap(days) ==
  Max({b - a : <<a, b>> \in {p \in days \X days :
                               p[1] < p[2] /\ \A d \in (p[1] + 1)..(p[2] - 1) : d \notin days}})

(* C7: over the sorted unique days, longest_gap_days is the largest         *)
(* difference between consecutive days (null under 2 days) and              *)
(* longest_streak_days the length of the longest run of days each one day   *)
(* after its predecessor.                                                   *)
C7_GapAndStreak ==
  ConverterTable =>
    \A i \in DOMAIN df.rows :
      LET days == UniqueDays(RowDocument(i))
          row == df.rows[i]
      IN /\ row["longest_gap_days"] =
              (IF Cardinality(days) < 2 THEN None ELSE JNum(LargestGap(days)))
         /\ row["longest_streak_days"] = JNum(LongestRun(days))

SummaryColumns ==
  {"userID", "gender", "age", "sessionID", "total_landmarks", "deleted_landmarks",
   "convex_hull_area", "total_days_used", "first_use_date", "last_use_date",
   "total_duration_days", "engagement_ratio", "longest_gap_days", "longest_streak_days"}

TrialColumns ==
  {"userID", "sessionID", "taskSource", "taskType", "error", "kendallTau",
   "distance_accuracy", "r2", "timestamp"}

(* C8: when no document yields a row, the result of process_uploaded_files  *)
(* and of the trial table is an empty table with the expected columns, and  *)
(* nothing is raised.                                                       *)
C8_EmptyTableKeepsSchema ==
  /\ (ConverterDone /\ WellFormed(json_files) = <<>>) =>
       /\ exception = None
       /\ df.t = "DataFrame" /\ df.rows = <<>>
       /\ SummaryColumns \subseteq df.columns
  /\ (ExplorerDone /\ ExpectedTrials = <<>>
        /\ \A i \in DOMAIN json_files : json_files[i] # Malformed) =>
       /\ exception = None
       /\ all_trials.t = "DataFrame" /\ all_trials.rows = <<>>
       /\ all_trials.columns = TrialColumns

ValidPoints(landmarks) ==
  SelectSeq(landmarks,
            LAMBDA l : Field(l, "longitude") # None /\ Field(l, "latitude") # None)

(* C9: calculate_convex_hull_area leaves out the landmarks with a null      *)
(* latitude or longitude, gives a null area (no error) under 3 valid points *)
(* and an area from 3 on; the landmarks left out still count in             *)
(* total_landmarks and stay in the landmark table.                          *)
C9_HullAreaNullUnderThreePoints ==
  /\ ConverterTable =>
       \A i \in DOMAIN df.rows :
         LET landmarks == DocLandmarks(RowDocument(i))
             area == df.rows[i]["convex_hull_area"]
         IN /\ (area = None) <=> (Len(ValidPoints(landmarks)) < 3)
            /\ area # None =>
                 /\ area.t = "area"
                 /\ area.points = {<<l.longitude, l.latitude>> : l \in Range(ValidPoints(landmarks))}
            /\ df.rows[i]["total_landmarks"] = JNum(Len(landmarks))
  /\ (ExplorerDone /\ \A i \in DOMAIN json_files : json_files[i] # Malformed) =>
       LET landmarks == FlatMap(DocLandmarks, json_files)
       IN /\ exception = None
          /\ all_landmarks.t = "DataFrame" /\ Len(all_landmarks.rows) = Len(landmarks)
          /\ convex_hull_df.t = "DataFrame"
          /\ \A i \in DOMAIN convex_hull_df.rows :
               (convex_hull_df.rows[i].convex_hull_area_km2 = None)
                 <=> (Len(ValidPoints(landmarks)) < 3)

(* C10: for 3 or more valid points with mean longitude in [-180, 180], the  *)
(* zone is floor((mean_lon + 180) / 6) + 1, one of 1..60, and the CRS code  *)
(* is 32600 + zone for mean latitude >= 0, else 32700 + zone.               *)
C10_UtmZone ==
  ConverterTable =>
    \A i \in DOMAIN df.rows :
      LET points == ValidPoints(DocLandmarks(RowDocument(i)))
          n == Len(points)
          sum_lon == Sum([j \in 1..n |-> points[j].longitude.n])
          sum_lat == Sum([j \in 1..n |-> points[j].latitude.n])
          zone == (sum_lon + 180 * n) \div (6 * n) + 1
      IN (n >= 3 /\ -180 * n <= sum_lon /\ sum_lon <= 180 * n) =>
           /\ zone \in 1..60
           /\ df.rows[i]["convex_hull_area"].t = "area"
           /\ df.rows[i]["convex_hull_area"].crs =
                (IF sum_lat >= 0 THEN 32600 + zone ELSE 32700 + zone)

(* C11: in every summary row longest_streak_days is at most                 *)
(* total_days_used, and at most total_duration_days + 1 when                *)
(* total_duration_days is not null.                                         *)
C11_StreakWithinDaysUsed ==
  ConverterTable =>
    \A i \in DOMAIN df.rows :
      LET row == df.rows[i]
      IN /\ row["longest_streak_days"].n <= row["total_days_used"].n
         /\ row["total_duration_days"] # None =>
              row["longest_streak_days"].n <= row["total_duration_days"].n + 1

====
